---- MODULE Spec2Model ----
(***************************************************************************)
(* Model of the two kopf operators of simple-k8s-operator:                 *)
(*   simpleapp-operator.py     reconcile for kind simpleapps               *)
(*   configmapapp-operator.py  reconcile for kind configmapapps            *)
(* Each reconcile call is a small sequential program whose steps are the   *)
(* cluster API calls it makes; the cluster object store is shared.         *)
(***************************************************************************)
EXTENDS Integers, Sequences, FiniteSets, TLC

\* ------------------------------------------------------------------------
\* Bounds
\* ------------------------------------------------------------------------
MaxInvocations == 2
MaxFaults == 1

\* Concurrent handler slots (kopf worker tasks)
Calls == {1, 2}

\* ------------------------------------------------------------------------
\* Values
\* ------------------------------------------------------------------------
\* Python's None, as returned by spec.get('image') on a missing key
None == "None"

\* e.status value tested by both handlers
StatusConflict == 409

\* An except clause that takes no error for a conflict
IsConflictNever(status) == FALSE

\* An except clause that takes every error for a conflict
IsConflictAlways(status) == TRUE

\* The except clause's test: e.status == 409
IsConflict(status) == status = StatusConflict

\* A mapping with no keys ({} in Python)
EmptyMap == [k \in {} |-> ""]

\* dict.get(key, default)
Get(d, key, default) == IF key \in DOMAIN d THEN d[key] ELSE default

\* Declared specs handed to reconcile
Specs ==
  { [image |-> "nginx:1.25", replicas |-> 3],
    [image |-> "nginx:1.25", replicas |-> 5],
    [image |-> "app:1", configData |-> ("app.conf" :> "k=v")],
    EmptyMap }

\* Owning resources (kind, name, namespace) that trigger reconcile
Owners ==
  { [kind |-> "simpleapps",    name |-> "web",    namespace |-> "default"],
    [kind |-> "configmapapps", name |-> "cfgweb", namespace |-> "prod"],
    [kind |-> "configmapapps", name |-> "web",    namespace |-> "default"] }

NoArgs == [kind |-> "", name |-> "", namespace |-> "", spec |-> EmptyMap]

\* ------------------------------------------------------------------------
\* Spec fields read by reconcile (both handlers, lines 9-11)
\* ------------------------------------------------------------------------
\* A handler that fills in an image when the spec has none
ImageDefaulted(spec) == Get(spec, "image", "nginx:latest")

\* image = spec.get('image')
Image(spec) == Get(spec, "image", None)

\* A handler that ignores the declared replica count
ReplicasIgnored(spec) == 1

\* replicas = spec.get('replicas', 1)
Replicas(spec) == Get(spec, "replicas", 1)

\* config_data = spec.get('configData', {})
ConfigData(spec) == Get(spec, "configData", EmptyMap)

\* ------------------------------------------------------------------------
\* Resource builders
\* ------------------------------------------------------------------------
\* A Workload name that does not depend on the owner
DeploymentNameFixed(name) == "app-deployment"

\* deployment_name = f"{name}-deployment"
DeploymentName(name) == name \o "-deployment"

\* A Configuration name that does not depend on the owner
ConfigMapNameFixed(name) == "app-configmap"

\* configmap_name = f"{name}-configmap"
ConfigMapName(name) == name \o "-configmap"

\* simpleapp-operator.py: the V1Deployment built by reconcile
SimpleDeployment(name, spec) ==
  [ kind           |-> "Deployment",
    name           |-> DeploymentName(name),
    labels         |-> [app |-> name],
    replicas       |-> Replicas(spec),
    selector       |-> [app |-> name],
    templateLabels |-> [app |-> name],
    container      |-> "app",
    image          |-> Image(spec),
    volumeMounts   |-> EmptyMap,
    volumes        |-> EmptyMap ]

\* configmapapp-operator.py: the V1Deployment built by reconcile
\* (volumeMounts: mount_path -> volume name; volumes: name -> config map)
CfgDeployment(name, spec) ==
  [ kind           |-> "Deployment",
    name           |-> DeploymentName(name),
    labels         |-> [app |-> name],
    replicas       |-> Replicas(spec),
    selector       |-> [app |-> name],
    templateLabels |-> [app |-> name],
    container      |-> "app",
    image          |-> Image(spec),
    volumeMounts   |-> ("/etc/config" :> "config-volume"),
    volumes        |-> ("config-volume" :> ConfigMapName(name)) ]

\* configmapapp-operator.py: the V1ConfigMap built by reconcile
CfgConfigMap(name, spec) ==
  [ kind   |-> "ConfigMap",
    name   |-> ConfigMapName(name),
    labels |-> [app |-> name],
    data   |-> ConfigData(spec) ]

\* ------------------------------------------------------------------------
\* Cluster API (object store): a set of stored objects, each carrying the
\* namespace it was written to.
\* ------------------------------------------------------------------------
Stored(ns, body) == [namespace |-> ns] @@ body

Lookup(store, kind, ns, name) ==
  {o \in store : o.kind = kind /\ o.namespace = ns /\ o.name = name}

Exists(store, kind, ns, name) == Lookup(store, kind, ns, name) # {}

\* The API server validates a body before it stores it: a container
\* without an image is rejected.
ValidBody(body) == body.kind = "Deployment" => body.image # None

\* Key-wise merge of two mappings, the patch's keys winning
Merge(old, new) ==
  [k \in DOMAIN old \cup DOMAIN new |-> IF k \in DOMAIN new THEN new[k] ELSE old[k]]

\* Result of patching a stored object with a body (merge patch: fields the
\* body sets are overwritten, mappings and keyed lists are merged, fields
\* the body leaves None are kept).
MergeObject(old, body) ==
  IF old.kind = "Deployment"
  THEN [ old EXCEPT
           !.labels         = Merge(old.labels, body.labels),
           !.replicas       = body.replicas,
           !.selector       = Merge(old.selector, body.selector),
           !.templateLabels = Merge(old.templateLabels, body.templateLabels),
           !.image          = IF body.image = None THEN old.image ELSE body.image,
           !.volumeMounts   = Merge(old.volumeMounts, body.volumeMounts),
           !.volumes        = Merge(old.volumes, body.volumes) ]
  ELSE [ old EXCEPT
           !.labels = Merge(old.labels, body.labels),
           !.data   = Merge(old.data, body.data) ]

\* Status of create_namespaced_*(namespace, body); fault # 0 is an error
\* the API raises for a reason of its own (forbidden, unavailable, ...).
CreateStatus(store, ns, body, fault) ==
  IF fault # 0 THEN fault
  ELSE IF ~ValidBody(body) THEN 422
  ELSE IF Exists(store, body.kind, ns, body.name) THEN 409
  ELSE 201

CreateStore(store, ns, body) == store \cup {Stored(ns, body)}

\* Status of patch_namespaced_*(name, namespace, body)
PatchStatus(store, kind, name, ns, fault) ==
  IF fault # 0 THEN fault
  ELSE IF ~Exists(store, kind, ns, name) THEN 404
  ELSE 200

PatchStore(store, kind, name, ns, body) ==
  (store \ Lookup(store, kind, ns, name))
    \cup {MergeObject(o, body) : o \in Lookup(store, kind, ns, name)}

\* Errors the API may raise on any call besides 409/404/422 (0: none)
FaultChoices == {0, 500}

\* Objects other actors may have left in the cluster before the operator
\* runs (kubectl users, an earlier operator version, garbage collection)
PreExisting ==
  { Stored("prod", CfgDeployment("cfgweb", [image |-> "old:0", replicas |-> 2])),
    Stored("prod", CfgConfigMap("cfgweb", [configData |-> ("old.conf" :> "z")])) }

\* ------------------------------------------------------------------------
\* State
\* ------------------------------------------------------------------------
VARIABLES
  cluster,       \* the cluster object store
  pc,            \* pc[c]: position of call c in reconcile
  args,          \* args[c]: kind, name, namespace, spec of call c
  log,           \* log[c]: API calls and notifications of call c, in order
  startCluster,  \* startCluster[c]: the store when call c started
  endCluster,    \* endCluster[c]: the store when call c returned or raised
  serial,        \* serial[c]: no call sharing a target overlapped call c
  pred,          \* pred[c]: the call that ended right before c started, if
                 \*          c repeats it on the store it left
  last,          \* the call that ended most recently
  faults,        \* API faults raised so far
  invocations    \* reconcile invocations so far

vars == <<cluster, pc, args, log, startCluster, endCluster, serial, pred,
          last, faults, invocations>>

Active == {"create_deployment", "create_configmap", "patch_deployment", "patch_configmap"}

Finished == {"done", "raised"}

NoLast == [valid |-> FALSE, args |-> NoArgs, cluster |-> {}, log |-> <<>>, serial |-> FALSE]

\* Keys of the objects a reconcile with arguments a writes
Targets(a) ==
  IF a.kind = "simpleapps"
  THEN {<<"Deployment", a.namespace, DeploymentName(a.name)>>}
  ELSE IF a.kind = "configmapapps"
  THEN {<<"Deployment", a.namespace, DeploymentName(a.name)>>,
        <<"ConfigMap", a.namespace, ConfigMapName(a.name)>>}
  ELSE {}

\* Log entries
ApiEntry(op, kind, name, ns, status) ==
  [ev |-> "api", op |-> op, kind |-> kind, name |-> name, namespace |-> ns, status |-> status]

\* kopf.info(body, reason=..., message=...)
Info(reason, message) == [ev |-> "info", reason |-> reason, message |-> message]

\* kopf.info(body, reason="Created", message=f"{what} {name} created")
CreatedInfo(what, name) == Info("Created", what \o " " \o name \o " created")

\* A notification of a patch that reports a creation
UpdatedInfoSaysCreated(what, name) == Info("Created", what \o " " \o name \o " created")

\* kopf.info(body, reason="Updated", message=f"{what} {name} updated")
UpdatedInfo(what, name) == Info("Updated", what \o " " \o name \o " updated")

Init ==
  /\ cluster \in SUBSET PreExisting
  /\ pc = [c \in Calls |-> "idle"]
  /\ args = [c \in Calls |-> NoArgs]
  /\ log = [c \in Calls |-> <<>>]
  /\ startCluster = [c \in Calls |-> {}]
  /\ endCluster = [c \in Calls |-> {}]
  /\ serial = [c \in Calls |-> TRUE]
  /\ pred = [c \in Calls |-> NoLast]
  /\ last = NoLast
  /\ faults = 0
  /\ invocations = 0

\* ------------------------------------------------------------------------
\* Actions
\* ------------------------------------------------------------------------
\* Call c enters reconcile with arguments a
Start(c, a) ==
  LET others == {d \in Calls \ {c} : pc[d] \in Active}
      sharing == {d \in others : Targets(args[d]) \cap Targets(a) # {}}
  IN
  /\ pc' = [pc EXCEPT ![c] = "create_deployment"]
  /\ args' = [args EXCEPT ![c] = a]
  /\ log' = [log EXCEPT ![c] = <<>>]
  /\ startCluster' = [startCluster EXCEPT ![c] = cluster]
  /\ endCluster' = [endCluster EXCEPT ![c] = {}]
  /\ serial' = [d \in Calls |-> IF d = c THEN sharing = {}
                                ELSE IF d \in sharing THEN FALSE ELSE serial[d]]
  /\ pred' = [pred EXCEPT ![c] =
                IF last.valid /\ last.args = a /\ last.cluster = cluster /\ others = {}
                THEN last ELSE NoLast]
  /\ UNCHANGED <<cluster, last, faults>>

\* The framework delivers a create/update event of owner o with spec s to
\* the handler registered for o.kind (the lowest free slot takes it).
Invoke(c, o, s) ==
  /\ pc[c] \notin Active
  /\ \A d \in Calls : d < c => pc[d] \in Active
  /\ invocations < MaxInvocations
  /\ invocations' = invocations + 1
  /\ Start(c, [kind |-> o.kind, name |-> o.name, namespace |-> o.namespace, spec |-> s])

\* The framework invokes the handler again for the same owner and the
\* same spec after the previous call returned or raised.
Resync(c) ==
  /\ pc[c] \in Finished
  /\ Start(c, args[c])
  /\ UNCHANGED invocations

\* One step of call c: the store after the API call, the entries it adds
\* to the call's log, and where the call continues.
Step(c, nextpc, store, entries) ==
  /\ pc' = [pc EXCEPT ![c] = nextpc]
  /\ cluster' = store
  /\ log' = [log EXCEPT ![c] = @ \o entries]
  /\ IF nextpc \in Finished
     THEN /\ endCluster' = [endCluster EXCEPT ![c] = store]
          /\ last' = [valid |-> TRUE, args |-> args[c], cluster |-> store,
                      log |-> log[c] \o entries, serial |-> serial[c]]
     ELSE UNCHANGED <<endCluster, last>>
  /\ UNCHANGED <<args, startCluster, serial, pred, invocations>>

\* The API raises fault f (0: it does not)
Fault(f) ==
  /\ f # 0 => faults < MaxFaults
  /\ faults' = IF f # 0 THEN faults + 1 ELSE faults

\* A handler that tries a patch again after a server error
AfterPatchErrorRetry(here, status) == IF status = 500 THEN here ELSE "raised"

\* Where a call goes when a patch raises: nothing catches an exception
\* raised inside the except clause, it leaves reconcile
AfterPatchError(here, status) == "raised"

\* simpleapp-operator.py, lines 42-51 and the except clause's dispatch
SimpleCreateDeployment(c) ==
  /\ pc[c] = "create_deployment"
  /\ args[c].kind = "simpleapps"
  /\ \E f \in FaultChoices :
       /\ Fault(f)
       /\ LET name == args[c].name
              ns == args[c].namespace
              deployment == SimpleDeployment(name, args[c].spec)
              deployment_name == DeploymentName(name)
              status == CreateStatus(cluster, ns, deployment, f)
              call == ApiEntry("create", "Deployment", deployment.name, ns, status)
          IN IF status = 201
             THEN Step(c, "done", CreateStore(cluster, ns, deployment),
                       <<call, CreatedInfo("Deployment", deployment_name)>>)
             ELSE IF IsConflict(status)
             THEN Step(c, "patch_deployment", cluster, <<call>>)
             ELSE Step(c, "raised", cluster, <<call>>)

\* simpleapp-operator.py, lines 55-64
SimplePatchDeployment(c) ==
  /\ pc[c] = "patch_deployment"
  /\ args[c].kind = "simpleapps"
  /\ \E f \in FaultChoices :
       /\ Fault(f)
       /\ LET name == args[c].name
              ns == args[c].namespace
              deployment == SimpleDeployment(name, args[c].spec)
              deployment_name == DeploymentName(name)
              status == PatchStatus(cluster, "Deployment", deployment_name, ns, f)
              call == ApiEntry("patch", "Deployment", deployment_name, ns, status)
          IN IF status = 200
             THEN Step(c, "done", PatchStore(cluster, "Deployment", deployment_name, ns, deployment),
                       <<call, UpdatedInfo("Deployment", deployment_name)>>)
             ELSE Step(c, AfterPatchError("patch_deployment", status), cluster, <<call>>)

\* configmapapp-operator.py, lines 68-78 and the except clause's dispatch
CfgCreateDeployment(c) ==
  /\ pc[c] = "create_deployment"
  /\ args[c].kind = "configmapapps"
  /\ \E f \in FaultChoices :
       /\ Fault(f)
       /\ LET name == args[c].name
              ns == args[c].namespace
              deployment == CfgDeployment(name, args[c].spec)
              deployment_name == DeploymentName(name)
              status == CreateStatus(cluster, ns, deployment, f)
              call == ApiEntry("create", "Deployment", deployment.name, ns, status)
          IN IF status = 201
             THEN Step(c, "create_configmap", CreateStore(cluster, ns, deployment),
                       <<call, CreatedInfo("Deployment", deployment_name)>>)
             ELSE IF IsConflict(status)
             THEN Step(c, "patch_deployment", cluster, <<call>>)
             ELSE Step(c, "raised", cluster, <<call>>)

\* configmapapp-operator.py, lines 80-89 and the except clause's dispatch
CfgCreateConfigMap(c) ==
  /\ pc[c] = "create_configmap"
  /\ args[c].kind = "configmapapps"
  /\ \E f \in FaultChoices :
       /\ Fault(f)
       /\ LET name == args[c].name
              ns == args[c].namespace
              configmap == CfgConfigMap(name, args[c].spec)
              configmap_name == ConfigMapName(name)
              status == CreateStatus(cluster, ns, configmap, f)
              call == ApiEntry("create", "ConfigMap", configmap.name, ns, status)
          IN IF status = 201
             THEN Step(c, "done", CreateStore(cluster, ns, configmap),
                       <<call, CreatedInfo("ConfigMap", configmap_name)>>)
             ELSE IF IsConflict(status)
             THEN Step(c, "patch_deployment", cluster, <<call>>)
             ELSE Step(c, "raised", cluster, <<call>>)

\* configmapapp-operator.py, lines 94-104
CfgPatchDeployment(c) ==
  /\ pc[c] = "patch_deployment"
  /\ args[c].kind = "configmapapps"
  /\ \E f \in FaultChoices :
       /\ Fault(f)
       /\ LET name == args[c].name
              ns == args[c].namespace
              deployment == CfgDeployment(name, args[c].spec)
              deployment_name == DeploymentName(name)
              status == PatchStatus(cluster, "Deployment", deployment_name, ns, f)
              call == ApiEntry("patch", "Deployment", deployment_name, ns, status)
          IN IF status = 200
             THEN Step(c, "patch_configmap", PatchStore(cluster, "Deployment", deployment_name, ns, deployment),
                       <<call, UpdatedInfo("Deployment", deployment_name)>>)
             ELSE Step(c, AfterPatchError("patch_deployment", status), cluster, <<call>>)

\* configmapapp-operator.py, lines 106-116
CfgPatchConfigMap(c) ==
  /\ pc[c] = "patch_configmap"
  /\ args[c].kind = "configmapapps"
  /\ \E f \in FaultChoices :
       /\ Fault(f)
       /\ LET name == args[c].name
              ns == args[c].namespace
              configmap == CfgConfigMap(name, args[c].spec)
              configmap_name == ConfigMapName(name)
              status == PatchStatus(cluster, "ConfigMap", configmap_name, ns, f)
              call == ApiEntry("patch", "ConfigMap", configmap_name, ns, status)
          IN IF status = 200
             THEN Step(c, "done", PatchStore(cluster, "ConfigMap", configmap_name, ns, configmap),
                       <<call, UpdatedInfo("ConfigMap", name)>>)
             ELSE Step(c, AfterPatchError("patch_configmap", status), cluster, <<call>>)

Next ==
  \E c \in Calls :
    \/ \E o \in Owners, s \in Specs : Invoke(c, o, s)
    \/ SimpleCreateDeployment(c)
    \/ SimplePatchDeployment(c)
    \/ CfgCreateDeployment(c)
    \/ CfgCreateConfigMap(c)
    \/ CfgPatchDeployment(c)
    \/ CfgPatchConfigMap(c)

Spec == Init /\ [][Next]_vars

\* One owner reconciled again and again, its calls serialized: a single
\* event is delivered, then the handler is re-invoked for ever, and every
\* call runs to its end.
LiveNext ==
  \/ invocations = 0 /\ \E o \in Owners, s \in Specs : Invoke(1, o, s)
  \/ Resync(1)
  \/ SimpleCreateDeployment(1)
  \/ SimplePatchDeployment(1)
  \/ CfgCreateDeployment(1)
  \/ CfgCreateConfigMap(1)
  \/ CfgPatchDeployment(1)
  \/ CfgPatchConfigMap(1)

LiveSpec == Init /\ [][LiveNext]_vars /\ WF_vars(LiveNext)

TypeOK ==
  /\ \A c \in Calls : pc[c] \in Active \cup Finished \cup {"idle"}
  /\ faults \in 0..MaxFaults
  /\ invocations \in 0..MaxInvocations

\* ------------------------------------------------------------------------
\* Reading a call's log
\* ------------------------------------------------------------------------
\* Entry i of l is the API call op on an object of the given kind
IsApi(l, i, op, kind) ==
  /\ l[i].ev = "api"
  /\ l[i].op = op
  /\ l[i].kind = kind

ApiCalls(l, op, kind) == {i \in 1..Len(l) : IsApi(l, i, op, kind)}

AnyApiCalls(l) == {i \in 1..Len(l) : l[i].ev = "api"}

Infos(l) == {i \in 1..Len(l) : l[i].ev = "info"}

\* Names a notification message may carry
MessageNames ==
  UNION {{o.name, DeploymentName(o.name), ConfigMapName(o.name)} : o \in Owners}

\* Entry i of l is a notification with this reason about an object of kind
InfoFor(l, i, reason, kind) ==
  /\ l[i].ev = "info"
  /\ l[i].reason = reason
  /\ \E n \in MessageNames, v \in {" created", " updated"} :
        l[i].message = kind \o " " \o n \o v

InfosFor(l, reason, kind) == {i \in 1..Len(l) : InfoFor(l, i, reason, kind)}

\* The API raised nothing but AlreadyExists (create) and NotFound (patch)
OnlyNaturalRejections(l) ==
  \A i \in AnyApiCalls(l) : l[i].status \in {200, 201, 409, 404}

\* The API raised nothing but AlreadyExists
OnlyConflicts(l) ==
  \A i \in AnyApiCalls(l) : l[i].status \in {200, 201, 409}

\* Kinds of the targets of a variant, in dependency order
TargetKinds(kind) ==
  IF kind = "simpleapps" THEN <<"Deployment">>
  ELSE IF kind = "configmapapps" THEN <<"Deployment", "ConfigMap">>
  ELSE <<>>

TargetName(kind, name) ==
  IF kind = "Deployment" THEN DeploymentName(name) ELSE ConfigMapName(name)

\* The definition call arguments a build for the target of this kind
Built(a, kind) ==
  IF kind = "ConfigMap" THEN CfgConfigMap(a.name, a.spec)
  ELSE IF a.kind = "simpleapps" THEN SimpleDeployment(a.name, a.spec)
  ELSE CfgDeployment(a.name, a.spec)

KindsOf(a) == {TargetKinds(a.kind)[i] : i \in 1..Len(TargetKinds(a.kind))}

Present(store, a, kind) == Exists(store, kind, a.namespace, TargetName(kind, a.name))

\* ------------------------------------------------------------------------
\* C1  Every target is upserted on its own: a patch of a target is issued
\*     only after that same target's create failed with 409, and a
\*     configmapapps call that finds the Workload present and the
\*     Configuration absent attempts a create of the Configuration and
\*     does not patch it.
\* ------------------------------------------------------------------------
C1_UpsertPerTarget ==
  \A c \in Calls :
    /\ \A k \in KindsOf(args[c]) :
         \A i \in ApiCalls(log[c], "patch", k) :
           \E j \in ApiCalls(log[c], "create", k) :
             j < i /\ log[c][j].status = 409
    /\ ( /\ pc[c] \in Finished
         /\ args[c].kind = "configmapapps"
         /\ serial[c]
         /\ OnlyNaturalRejections(log[c])
         /\ Present(startCluster[c], args[c], "Deployment")
         /\ ~Present(startCluster[c], args[c], "ConfigMap") )
       => /\ ApiCalls(log[c], "create", "ConfigMap") # {}
          /\ ApiCalls(log[c], "patch", "ConfigMap") = {}

\* ------------------------------------------------------------------------
\* C2  Convergence under re-invocation.  When one owner is reconciled
\*     again and again with an unchanged spec, its calls serialized, then
\*     from every initial store either the API raises an error other than
\*     AlreadyExists / NotFound at some point, or eventually a call
\*     returns without error with every target of the variant stored as
\*     built.
\* ------------------------------------------------------------------------
Converged ==
  \E c \in Calls :
    /\ pc[c] = "done"
    /\ \A k \in KindsOf(args[c]) :
         Lookup(cluster, k, args[c].namespace, TargetName(k, args[c].name))
           = {Stored(args[c].namespace, Built(args[c], k))}

ApiMisbehaved == \E c \in Calls : ~OnlyNaturalRejections(log[c])

C2_Convergence == (<>ApiMisbehaved) \/ (<>Converged)

\* A consequence of C2: eventually a call returns with every target stored
TargetsStored ==
  \E c \in Calls :
    /\ pc[c] = "done"
    /\ \A k \in KindsOf(args[c]) : Present(cluster, args[c], k)

TargetsEventuallyStored == (<>ApiMisbehaved) \/ (<>TargetsStored)

\* ------------------------------------------------------------------------
\* C3  After a reconcile call that returns without error (no call on the
\*     same targets overlapping it), every target of the variant exists in
\*     the owner's namespace and the stored Workload carries the replica
\*     count (1 when the spec has none) and the image of the call's spec;
\*     when the Workload existed before the call it was patched, the call
\*     created no object and the store holds the names the call found
\*     (and those other owners' calls added meanwhile, none of them a
\*     target of this call).
\* ------------------------------------------------------------------------
ObjectNames(store) == {<<o.kind, o.namespace, o.name>> : o \in store}

C3_SuccessfulCallConverges ==
  \A c \in Calls :
    (pc[c] = "done" /\ serial[c]) =>
      LET a == args[c]
          l == log[c]
          workloads == Lookup(endCluster[c], "Deployment", a.namespace, DeploymentName(a.name))
      IN /\ \A k \in KindsOf(a) : Present(endCluster[c], a, k)
         /\ \A o \in workloads :
              /\ o.replicas = IF "replicas" \in DOMAIN a.spec THEN a.spec.replicas ELSE 1
              /\ "image" \in DOMAIN a.spec
              /\ o.image = a.spec.image
         /\ Present(startCluster[c], a, "Deployment") =>
              /\ \E i \in ApiCalls(l, "patch", "Deployment") : l[i].status = 200
              /\ \A i \in AnyApiCalls(l) : l[i].status # 201
              /\ ObjectNames(startCluster[c]) \subseteq ObjectNames(endCluster[c])
              /\ (ObjectNames(endCluster[c]) \ ObjectNames(startCluster[c]))
                    \cap Targets(a) = {}

\* Witness: the Workload stood at another replica count, the call was made
\* with replicas 5 and returned
C3_Witness ==
  \E c \in Calls :
    /\ pc[c] = "done"
    /\ serial[c]
    /\ "replicas" \in DOMAIN args[c].spec
    /\ args[c].spec.replicas = 5
    /\ \E o \in Lookup(startCluster[c], "Deployment", args[c].namespace, DeploymentName(args[c].name)) :
         o.replicas # 5
    /\ \E o \in Lookup(endCluster[c], "Deployment", args[c].namespace, DeploymentName(args[c].name)) :
         o.replicas = 5

\* ------------------------------------------------------------------------
\* C4  Idempotence.  A call that repeats the call that ended right before
\*     it (same owner, same spec, nobody else writing its targets, the API
\*     raising no error of its own) leaves its targets as the first call
\*     left them.
\* ------------------------------------------------------------------------
\* No error other than 409 (create), 404 (patch) and 422 (body rejected)
NoFault(l) == \A i \in AnyApiCalls(l) : l[i].status \in {200, 201, 409, 404, 422}

\* The objects of store a reconcile with arguments a writes
TargetObjects(store, a) ==
  {o \in store : <<o.kind, o.namespace, o.name>> \in Targets(a)}

\* The second call left what the first call left
SameAsOnce(c) ==
  TargetObjects(endCluster[c], args[c]) = TargetObjects(pred[c].cluster, args[c])

\* Call c is the second of two calls in succession
Repeats(c) ==
  /\ pc[c] \in Finished
  /\ pred[c].valid
  /\ serial[c]
  /\ pred[c].serial
  /\ NoFault(log[c])
  /\ NoFault(pred[c].log)

\* C4 as stated: for every spec the second call takes the patch branch and
\* changes nothing
C4_Original ==
  \A c \in Calls :
    Repeats(c) =>
      /\ SameAsOnce(c)
      /\ \E k \in KindsOf(args[c]) : ApiCalls(log[c], "patch", k) # {}

\* C4 amended: the second call changes nothing; it takes the patch branch
\* when the spec carries an image, and is rejected at the Workload's create
\* like the first call when it carries none
C4_Idempotent ==
  \A c \in Calls :
    Repeats(c) =>
      /\ SameAsOnce(c)
      /\ "image" \in DOMAIN args[c].spec =>
            /\ ApiCalls(log[c], "patch", "Deployment") # {}
            /\ \A i \in AnyApiCalls(log[c]) : log[c][i].status \notin {201}
      /\ "image" \notin DOMAIN args[c].spec =>
            /\ log[c] = pred[c].log
            /\ pc[c] = "raised"

\* Witness: the first call created a target, the second one patched
C4_Witness ==
  \E c \in Calls :
    /\ Repeats(c)
    /\ \E i \in AnyApiCalls(pred[c].log) : pred[c].log[i].status = 201
    /\ \E i \in ApiCalls(log[c], "patch", "Deployment") : log[c][i].status = 200
    /\ pc[c] = "done"

\* ------------------------------------------------------------------------
\* C5  Fatal propagation.  A create of the Workload that fails with a
\*     status other than 409 is the only API call of its reconcile call,
\*     which raises and notifies nothing; a patch that fails is the last
\*     API call of its reconcile call, which raises.
\* ------------------------------------------------------------------------
C5_FatalPropagation ==
  \A c \in Calls :
    LET l == log[c] IN
    /\ \A i \in ApiCalls(l, "create", "Deployment") :
         l[i].status \notin {201, 409} =>
           /\ Len(l) = 1
           /\ pc[c] = "raised"
    /\ \A i \in AnyApiCalls(l) :
         (l[i].op = "patch" /\ l[i].status # 200) =>
           /\ i = Len(l)
           /\ pc[c] = "raised"

\* Witness: one call raised on its first create, another raised on the
\* patch of the Workload with the Configuration still to patch
C5_Witness ==
  \E c, d \in Calls :
    /\ pc[c] = "raised"
    /\ Len(log[c]) = 1
    /\ IsApi(log[c], 1, "create", "Deployment")
    /\ log[c][1].status \notin {201, 409}
    /\ pc[d] = "raised"
    /\ args[d].kind = "configmapapps"
    /\ Len(log[d]) = 2
    /\ IsApi(log[d], 2, "patch", "Deployment")
    /\ log[d][2].status = 500

\* ------------------------------------------------------------------------
\* C6  Ordering.  Within one reconcile call no API call on the Workload
\*     comes after an API call on the Configuration.
\* ------------------------------------------------------------------------
C6_WorkloadBeforeConfiguration ==
  \A c \in Calls :
    \A i, j \in AnyApiCalls(log[c]) :
      (log[c][i].kind = "Deployment" /\ log[c][j].kind = "ConfigMap") => i < j

\* ------------------------------------------------------------------------
\* C7  Fallback.  In a call during which the API raised nothing but
\*     AlreadyExists, every target that existed when the call started is
\*     patched exactly once, has at most one create attempted, and gets an
\*     "Updated" notification and no "Created" one.
\* ------------------------------------------------------------------------
C7_Fallback ==
  \A c \in Calls :
    (pc[c] \in Finished /\ OnlyConflicts(log[c])) =>
      \A k \in KindsOf(args[c]) :
        Present(startCluster[c], args[c], k) =>
          /\ Cardinality(ApiCalls(log[c], "patch", k)) = 1
          /\ Cardinality(ApiCalls(log[c], "create", k)) <= 1
          /\ InfosFor(log[c], "Updated", k) # {}
          /\ InfosFor(log[c], "Created", k) = {}

\* Witness: a configmapapps call that found both targets and finished
C7_Witness ==
  \E c \in Calls :
    /\ pc[c] \in Finished
    /\ OnlyConflicts(log[c])
    /\ args[c].kind = "configmapapps"
    /\ Present(startCluster[c], args[c], "Deployment")
    /\ Present(startCluster[c], args[c], "ConfigMap")
    /\ InfosFor(log[c], "Updated", "ConfigMap") # {}

\* ------------------------------------------------------------------------
\* C8  A call that returns without error (no call on the same targets
\*     overlapping it) emits exactly one notification per target of its
\*     variant: "Created" for a target absent when the call started,
\*     "Updated" for a target present then, never both for one target.
\* ------------------------------------------------------------------------
C8_OneNotificationPerTarget ==
  \A c \in Calls :
    (pc[c] = "done" /\ serial[c]) =>
      /\ Cardinality(Infos(log[c])) = Len(TargetKinds(args[c].kind))
      /\ \A k \in KindsOf(args[c]) :
           /\ Cardinality(InfosFor(log[c], "Created", k))
                = IF Present(startCluster[c], args[c], k) THEN 0 ELSE 1
           /\ Cardinality(InfosFor(log[c], "Updated", k))
                = IF Present(startCluster[c], args[c], k) THEN 1 ELSE 0

\* ------------------------------------------------------------------------
\* C9  A call that ends with a fatal error has emitted no notification
\*     for the target of the failing API call, and every notification
\*     comes right after the successful create ("Created") or patch
\*     ("Updated") of the object it names.
\* ------------------------------------------------------------------------
C9_NotificationsFollowSuccess ==
  \A c \in Calls :
    LET l == log[c] IN
    /\ pc[c] = "raised" =>
         \A i \in Infos(l), r \in {"Created", "Updated"} :
           ~InfoFor(l, i, r, l[Len(l)].kind)
    /\ \A i \in Infos(l) :
         /\ i > 1
         /\ l[i-1].ev = "api"
         /\ \/ /\ l[i].reason = "Created"
               /\ l[i-1].op = "create"
               /\ l[i-1].status = 201
               /\ l[i].message = l[i-1].kind \o " " \o l[i-1].name \o " created"
            \/ /\ l[i].reason = "Updated"
               /\ l[i-1].op = "patch"
               /\ l[i-1].status = 200
               /\ l[i].message = l[i-1].kind \o " " \o l[i-1].name \o " updated"

\* ------------------------------------------------------------------------
\* C10 Two reconcile calls for the same owner and spec that interleave at
\*     API-call granularity, the API raising nothing but AlreadyExists and
\*     NotFound: once both have finished, every target of the variant
\*     exists exactly once and equals the built definition.
\* ------------------------------------------------------------------------
C10_ConcurrentSameOwner ==
  \A c, d \in Calls :
    ( /\ c # d
      /\ pc[c] \in Finished
      /\ pc[d] \in Finished
      /\ args[c] = args[d]
      /\ ~serial[c]
      /\ ~serial[d]
      /\ OnlyNaturalRejections(log[c])
      /\ OnlyNaturalRejections(log[d]) )
    => \A k \in KindsOf(args[c]) :
         Lookup(cluster, k, args[c].namespace, TargetName(k, args[c].name))
           = {Stored(args[c].namespace, Built(args[c], k))}

\* ------------------------------------------------------------------------
\* C11 Naming.  Every API call of a reconcile for owner N in namespace NS
\*     addresses namespace NS and the name N-deployment (Workload) or
\*     N-configmap (Configuration); every object it wrote carries the
\*     label app = N; the store never holds two objects of one kind, name
\*     and namespace.
\* ------------------------------------------------------------------------
C11_Naming ==
  /\ \A c \in Calls :
       \A i \in AnyApiCalls(log[c]) :
         LET e == log[c][i] IN
         /\ e.namespace = args[c].namespace
         /\ e.name = args[c].name \o (IF e.kind = "Deployment" THEN "-deployment" ELSE "-configmap")
         /\ e.status \in {200, 201} =>
              /\ Exists(cluster, e.kind, e.namespace, e.name)
              /\ \A o \in Lookup(cluster, e.kind, e.namespace, e.name) :
                   o.labels = [app |-> args[c].name]
  /\ \A o1, o2 \in cluster :
       (o1.kind = o2.kind /\ o1.namespace = o2.namespace /\ o1.name = o2.name) => o1 = o2

\* Witness: a configmapapps owner reconciled twice, both targets written
C11_Witness ==
  \E c \in Calls :
    /\ pc[c] = "done"
    /\ pred[c].valid
    /\ args[c].kind = "configmapapps"
    /\ \E i \in AnyApiCalls(pred[c].log) : pred[c].log[i].status = 201
    /\ Cardinality(Lookup(cluster, "Deployment", args[c].namespace, args[c].name \o "-deployment")) = 1
    /\ Cardinality(Lookup(cluster, "ConfigMap", args[c].namespace, args[c].name \o "-configmap")) = 1

\* ------------------------------------------------------------------------
\* C12 Frame.  No step of a reconcile call removes an object; an object
\*     that a step adds or changes is a target of the call that took the
\*     step; API calls address Workloads and Configurations only (never
\*     the owning resource); a simpleapps call makes no API call on a
\*     Configuration.
\* ------------------------------------------------------------------------
Key(o) == <<o.kind, o.namespace, o.name>>

\* Keys of the targets of owner a, spelled out
OwnKeys(a) ==
  {<<"Deployment", a.namespace, a.name \o "-deployment">>}
    \cup (IF a.kind = "configmapapps"
          THEN {<<"ConfigMap", a.namespace, a.name \o "-configmap">>}
          ELSE {})

FrameStep ==
  /\ \A o \in cluster : Key(o) \in ObjectNames(cluster')
  /\ \A o \in (cluster' \ cluster) \cup (cluster \ cluster') :
       \E c \in Calls :
         /\ pc[c] \in Active
         /\ log'[c] # log[c]
         /\ Key(o) \in OwnKeys(args[c])
  /\ \A c \in Calls :
       \A i \in AnyApiCalls(log'[c]) :
         /\ log'[c][i].kind \in {"Deployment", "ConfigMap"}
         /\ args'[c].kind = "simpleapps" => log'[c][i].kind # "ConfigMap"

C12_Frame == [][FrameStep]_vars

\* Witness: a call changed its Workload in a store that also held an
\* object of another owner, which the call left as it was
C12_Witness ==
  \E c \in Calls :
    /\ pc[c] \in Finished
    /\ args[c].kind = "simpleapps"
    /\ \E o \in startCluster[c] : Key(o) \notin OwnKeys(args[c]) /\ o \in endCluster[c]
    /\ \E t \in startCluster[c] : Key(t) \in OwnKeys(args[c]) /\ t \notin endCluster[c]

\* ------------------------------------------------------------------------
\* C13 Default-filling.  The bodies a call builds from its spec carry
\*     replicas 1 when the spec has no replicas, an empty data mapping
\*     when it has no configData, the declared values when it has them,
\*     and no image when it has none: such a Workload is sent as it is and
\*     the API rejects it.
\* ------------------------------------------------------------------------
C13_Defaults ==
  \A c \in Calls :
    pc[c] # "idle" =>
      LET spec == args[c].spec
          workload == Built(args[c], "Deployment")
          configuration == Built(args[c], "ConfigMap")
      IN /\ workload.replicas = IF "replicas" \in DOMAIN spec THEN spec.replicas ELSE 1
         /\ workload.image = IF "image" \in DOMAIN spec THEN spec.image ELSE "None"
         /\ args[c].kind = "configmapapps" =>
              /\ DOMAIN configuration.data =
                   IF "configData" \in DOMAIN spec THEN DOMAIN spec.configData ELSE {}
              /\ \A k \in DOMAIN configuration.data : configuration.data[k] = spec.configData[k]
         /\ ("image" \notin DOMAIN spec /\ NoFault(log[c]) /\ log[c] # <<>>) =>
              /\ log[c][1].status = 422
              /\ pc[c] = "raised"
         /\ \A i \in ApiCalls(log[c], "create", "Deployment") :
              (log[c][i].status = 201 /\ serial[c] /\ pc[c] \in Finished) =>
                \A o \in Lookup(endCluster[c], "Deployment", args[c].namespace, log[c][i].name) :
                  o.replicas = IF "replicas" \in DOMAIN spec THEN spec.replicas ELSE 1

\* Witness: a call with a spec without replicas created a Workload of one
\* replica, a call with the empty spec was rejected
C13_Witness ==
  \E c, d \in Calls :
    /\ pc[c] \in Finished
    /\ "replicas" \notin DOMAIN args[c].spec
    /\ "configData" \in DOMAIN args[c].spec
    /\ \E i \in ApiCalls(log[c], "create", "Deployment") : log[c][i].status = 201
    /\ \E o \in Lookup(endCluster[c], "Deployment", args[c].namespace, args[c].name \o "-deployment") :
         o.replicas = 1
    /\ args[d].kind = "configmapapps"
    /\ DOMAIN args[d].spec = {}
    /\ pc[d] = "raised"

\* ------------------------------------------------------------------------
\* C14 After a configmapapps call that returns without error (no call on
\*     the same targets overlapping it) the stored Configuration's data is
\*     the call's configData: same keys, same values.
\* ------------------------------------------------------------------------
C14_ConfigDataExact ==
  \A c \in Calls :
    (pc[c] = "done" /\ serial[c] /\ args[c].kind = "configmapapps") =>
      LET spec == args[c].spec
          stored == Lookup(endCluster[c], "ConfigMap", args[c].namespace, args[c].name \o "-configmap")
      IN /\ stored # {}
         /\ \A o \in stored :
              /\ DOMAIN o.data = IF "configData" \in DOMAIN spec THEN DOMAIN spec.configData ELSE {}
              /\ \A k \in DOMAIN o.data : o.data[k] = spec.configData[k]

\* ------------------------------------------------------------------------
\* The simpleapps handler as a function: the log of a simpleapps reconcile
\* that runs alone on store, the API raising no error of its own
\* (simpleapp-operator.py, lines 42-66).
\* ------------------------------------------------------------------------
SimpleReconcileLog(store, name, ns, spec) ==
  LET deployment == SimpleDeployment(name, spec)
      deployment_name == DeploymentName(name)
      created == CreateStatus(store, ns, deployment, 0)
      patched == PatchStatus(store, "Deployment", deployment_name, ns, 0)
      create == ApiEntry("create", "Deployment", deployment.name, ns, created)
      patch == ApiEntry("patch", "Deployment", deployment_name, ns, patched)
  IN IF created = 201
     THEN <<create, CreatedInfo("Deployment", deployment_name)>>
     ELSE IF IsConflict(created)
     THEN IF patched = 200
          THEN <<create, patch, UpdatedInfo("Deployment", deployment_name)>>
          ELSE <<create, patch>>
     ELSE <<create>>

\* The function agrees with the simpleapps actions
SimpleReconcileLogAgrees ==
  \A c \in Calls :
    ( /\ args[c].kind = "simpleapps"
      /\ pc[c] \in Finished
      /\ serial[c]
      /\ NoFault(log[c]) )
    => log[c] = SimpleReconcileLog(startCluster[c], args[c].name, args[c].namespace, args[c].spec)

\* A log entry about the Workload: an API call on a Deployment or a
\* notification whose message starts with "Deployment"
IsWorkloadEntry(e) ==
  \/ e.ev = "api" /\ e.kind = "Deployment"
  \/ /\ e.ev = "info"
     /\ \E n \in MessageNames, v \in {" created", " updated"} :
          e.message = "Deployment " \o n \o v

\* ------------------------------------------------------------------------
\* C15 Variant equivalence on the Workload.  The Workload API calls and
\*     Workload notifications of a configmapapps call (running alone on
\*     its targets, the API raising no error of its own) are those of a
\*     simpleapps reconcile for the same owner name, namespace and spec
\*     started on the same store.
\* ------------------------------------------------------------------------
C15_VariantEquivalence ==
  \A c \in Calls :
    ( /\ args[c].kind = "configmapapps"
      /\ pc[c] \in Finished
      /\ serial[c]
      /\ NoFault(log[c]) )
    => SelectSeq(log[c], IsWorkloadEntry)
         = SimpleReconcileLog(startCluster[c], args[c].name, args[c].namespace, args[c].spec)

\* ------------------------------------------------------------------------
\* C16 Bounded calls and termination.  A reconcile call issues at most
\*     one create and at most one patch per target (at most 2 API calls
\*     for simpleapps, 4 for configmapapps), never issues again a call
\*     that failed, and every call that has started returns or raises.
\* ------------------------------------------------------------------------
C16_Bounded ==
  \A c \in Calls :
    LET l == log[c] IN
    /\ \A op \in {"create", "patch"}, k \in {"Deployment", "ConfigMap"} :
         Cardinality(ApiCalls(l, op, k)) <= 1
    /\ Cardinality(AnyApiCalls(l)) <= (IF args[c].kind = "simpleapps" THEN 2 ELSE 4)
    /\ \A i, j \in AnyApiCalls(l) :
         (i < j /\ l[i].status \notin {200, 201}) =>
           ~(l[j].op = l[i].op /\ l[j].kind = l[i].kind)

C16_Terminates ==
  /\ []C16_Bounded
  /\ \A c \in Calls : (pc[c] \in Active) ~> (pc[c] \in Finished)

\* Witness: a configmapapps call returned after four API calls
C16_Witness ==
  \E c \in Calls :
    /\ pc[c] = "done"
    /\ args[c].kind = "configmapapps"
    /\ Cardinality(AnyApiCalls(log[c])) = 4

\* ------------------------------------------------------------------------
\* C17 Owner isolation.  Two reconcile calls for distinct owners of one
\*     namespace (distinct by name or by kind) write no common object,
\*     and once both have returned each owner's Workload is the one built
\*     from that owner's spec.
\* ------------------------------------------------------------------------
DistinctOwners(a, b) ==
  /\ a.kind # ""
  /\ b.kind # ""
  /\ a.namespace = b.namespace
  /\ (a.name # b.name \/ a.kind # b.kind)

C17_OwnerIsolation ==
  \A c, d \in Calls :
    (c # d /\ DistinctOwners(args[c], args[d])) =>
      /\ \A i \in AnyApiCalls(log[c]), j \in AnyApiCalls(log[d]) :
           ~( /\ log[c][i].status \in {200, 201}
              /\ log[d][j].status \in {200, 201}
              /\ log[c][i].kind = log[d][j].kind
              /\ log[c][i].namespace = log[d][j].namespace
              /\ log[c][i].name = log[d][j].name )
      /\ (pc[c] = "done" /\ pc[d] = "done") =>
           Lookup(cluster, "Deployment", args[c].namespace, args[c].name \o "-deployment")
             = {Stored(args[c].namespace, Built(args[c], "Deployment"))}

\* ------------------------------------------------------------------------
\* C18 Race resolution.  When two calls for the same owner interleave and
\*     the API raises nothing but AlreadyExists and NotFound, both calls
\*     return: the only failure either observes is a 409 on a create, and
\*     a successful patch of the same target follows it.
\* ------------------------------------------------------------------------
SameOwner(a, b) ==
  /\ a.kind # ""
  /\ a.kind = b.kind
  /\ a.name = b.name
  /\ a.namespace = b.namespace

C18_RaceResolution ==
  \A c, d \in Calls :
    ( /\ c # d
      /\ SameOwner(args[c], args[d])
      /\ pc[c] \in Finished
      /\ pc[d] \in Finished
      /\ ~serial[c]
      /\ ~serial[d]
      /\ OnlyNaturalRejections(log[c])
      /\ OnlyNaturalRejections(log[d]) )
    => /\ pc[c] = "done"
       /\ \A i \in AnyApiCalls(log[c]) :
            log[c][i].status \notin {200, 201} =>
              /\ log[c][i].op = "create"
              /\ log[c][i].status = 409
              /\ \E j \in ApiCalls(log[c], "patch", log[c][i].kind) :
                   j > i /\ log[c][j].status = 200

====
